---- MODULE Spec2Model ----
(***************************************************************************)
(* Model of the cloudwatch command line tool (src/main.rs): a query is     *)
(* hashed to a cache path; a cache hit copies the cached file to the       *)
(* output, a cache miss pages through `aws logs filter-log-events`, writes *)
(* every event to <path>.partial and to the output, and renames the        *)
(* partial file to <path> when the paging loop ends.                       *)
(*                                                                         *)
(* The file system is modelled with inodes: a path names an inode, an open *)
(* file is an inode plus an offset, rename moves a name, File::create      *)
(* truncates the inode the name already has.  All invocations of one       *)
(* behaviour carry the same query, hence the same two paths.               *)
(***************************************************************************)
EXTENDS Integers, Sequences, FiniteSets, TLC

(* ---------------------------------------------------------------- bounds *)
MaxN == 2          \* longest remote stream
MaxItems == 2      \* largest --max-items value
MaxPage == 2       \* most events the remote puts in one response
MaxReq == 3        \* most requests one invocation issues in the model

Procs == {1, 2}    \* invocations of the program, numbered as they start

\* Inode of the cache entry an earlier invocation left (warm cache only), and
\* the id under which that invocation's events are numbered.
Earlier == Cardinality(Procs) + 1

Inodes == Procs \cup {Earlier}

(* ------------------------------------------------------- program values *)
PageLimit == 1000                 \* main.rs:160
NEWLINE == 0                      \* main.rs:25, the byte '\n'
None == -1                        \* Option::None of max_items / next_token
Half == 65536                     \* 2^16: a u32 is kept as <<high, low>> halves
PanicCode == 101                  \* exit status of a Rust panic

Min(a, b) == IF a < b THEN a ELSE b

\* The i-th event of the stream served to invocation p, as a JSON value.
Rec(p, i) == 10 * p + i

\* The first n events of the stream served to invocation p.
Stream(p, n) == [i \in 1..n |-> Rec(p, i)]

\* event.to_string() as bytes: one token per event (serde_json never puts a
\* raw newline in its output).
ToBytes(event) == <<event>>

\* What print_event puts on the output for an event: timestamp and message.
TextOf(event) == 100 + event

\* One line of text output (println!) or of structured output
\* (stdout.write(bytes); stdout.write(NEWLINE)).
EmitLine(text, event) ==
    IF text THEN <<TextOf(event), NEWLINE>> ELSE ToBytes(event) \o <<NEWLINE>>

\* The bytes a fetch appends to its file for a sequence of events.
RECURSIVE Encode(_)
Encode(events) ==
    IF events = <<>> THEN <<>>
    ELSE ToBytes(Head(events)) \o <<NEWLINE>> \o Encode(Tail(events))

\* SplitLines as str::split('\n') does it: the text after the last '\n' is a
\* line even when it is empty.
RECURSIVE SplitKeepsEmpty(_, _)
SplitKeepsEmpty(bytes, cur) ==
    IF bytes = <<>> THEN <<cur>>
    ELSE IF Head(bytes) = NEWLINE
    THEN <<cur>> \o SplitKeepsEmpty(Tail(bytes), <<>>)
    ELSE SplitKeepsEmpty(Tail(bytes), Append(cur, Head(bytes)))

\* BufRead::lines(): split at '\n'; a last line without '\n' is a line too.
RECURSIVE SplitLines(_, _)
SplitLines(bytes, cur) ==
    IF bytes = <<>> THEN (IF cur = <<>> THEN <<>> ELSE <<cur>>)
    ELSE IF Head(bytes) = NEWLINE THEN <<cur>> \o SplitLines(Tail(bytes), <<>>)
    ELSE SplitLines(Tail(bytes), Append(cur, Head(bytes)))

Lines(bytes) == SplitLines(bytes, <<>>)

\* The bytes after the last '\n' (the line still being collected).
RECURSIVE Unterminated(_, _)
Unterminated(bytes, cur) ==
    IF bytes = <<>> THEN cur
    ELSE IF Head(bytes) = NEWLINE THEN Unterminated(Tail(bytes), <<>>)
    ELSE Unterminated(Tail(bytes), Append(cur, Head(bytes)))

\* The lines that end in '\n'.
Terminated(bytes) ==
    LET all == Lines(bytes)
    IN IF Unterminated(bytes, <<>>) = <<>> THEN all
       ELSE SubSeq(all, 1, Len(all) - 1)

\* serde_json::from_str succeeds on a line that is exactly one JSON value.
IsJson(line) == Len(line) = 1 /\ line[1] >= 10

\* main.rs:118-122 on a sequence of lines: print every line up to the first
\* one that is not JSON; ok is FALSE when such a line was met (unwrap panics).
RECURSIVE PrintLines(_)
PrintLines(lines) ==
    IF lines = <<>> THEN [out |-> <<>>, ok |-> TRUE]
    ELSE IF ~IsJson(Head(lines)) THEN [out |-> <<>>, ok |-> FALSE]
    ELSE LET rest == PrintLines(Tail(lines))
         IN [out |-> EmitLine(TRUE, Head(lines)[1]) \o rest.out, ok |-> rest.ok]

\* Chunk with an off-by-one: the byte at the offset is skipped.
ChunkSkipsByte(bytes, pos) == SubSeq(bytes, pos + 2, Len(bytes))

\* read(): the bytes of a file from an offset up to its end.
Chunk(bytes, pos) == SubSeq(bytes, pos + 1, Len(bytes))

\* write() at an offset: the bytes of the file afterwards; a gap past the end
\* of the file reads as NUL bytes (token 1).
WriteAt(content, pos, bytes) ==
    LET n == Len(content)
        m == Len(bytes)
        newlen == IF pos + m > n THEN pos + m ELSE n
    IN [i \in 1..newlen |->
            IF i > pos /\ i <= pos + m THEN bytes[i - pos]
            ELSE IF i <= n THEN content[i]
            ELSE 1]

\* An Option<u32>: <<>> is None, <<high, low>> is Some(high * 2^16 + low).
\* (TLC's integers end at 2^31 - 1, a u32 does not.)
Unbounded == <<>>
U32(n) == <<n \div Half, n % Half>>

\* max_items.map(|x| x.parse::<u32>().unwrap())
ParseItems(items) == IF items = None THEN Unbounded ELSE U32(items)

\* Limit without the item count: every request asks for a full page.
LimitFullPage(rem) == PageLimit

\* remaining.unwrap_or(1000).min(1000)
Limit(rem) ==
    IF rem = Unbounded THEN PageLimit
    ELSE IF rem[1] > 0 \/ rem[2] > PageLimit THEN PageLimit
    ELSE rem[2]

\* LoopCond as remaining >= 0, which every u32 satisfies.
LoopCondAlways(rem) == TRUE

\* while remaining.is_none() || remaining.unwrap() > 0
LoopCond(rem) == rem = Unbounded \/ rem # U32(0)

\* AfterPage without the end-of-stream break.
AfterPageNoBreak(token, rem) == IF LoopCond(rem) THEN "request" ELSE "rename"

\* AfterPage with the test of the token inverted (is_some for is_none).
AfterPageBreaksOnToken(token, rem) ==
    IF token = None /\ LoopCond(rem) THEN "request" ELSE "rename"

\* AfterPage that takes every page for the last one.
AfterPageEndsFetch(token, rem) == "rename"

\* main.rs:192-196 and main.rs:150: where main goes after a page.
AfterPage(token, rem) ==
    IF token # None /\ LoopCond(rem) THEN "request" ELSE "rename"

\* count < len: the subtraction count - len overflows
Overflows(count, len) == count[1] = 0 /\ count[2] < len

\* count - len in wrapping u32 arithmetic (len < 2^16)
Subtract(count, len) ==
    IF count[2] >= len THEN <<count[1], count[2] - len>>
    ELSE <<(count[1] - 1) % Half, count[2] - len + Half>>

\* The panic message of a failed unwrap() or overflow check at a source line.
PanicMessage(line) == <<"panic", line>>

\* The error stream of the n-th aws call of invocation p, when it fails.
AwsStderr(p, n) == <<"aws", 10 * p + n>>

\* TemporaryPath without the extension: the fetch writes the entry in place.
TemporaryIsPath == "path"

\* path.with_extension("partial")
TemporaryPath == "temporary_path"

(* ---------------------------------------------------------- fingerprint *)
\* Strings are sequences of characters; an Option<&str> is <<>> for None and
\* <<s>> for Some(s).
Values == {<<"1">>, <<"1", "1">>}

Optional == {<<>>} \cup {<<v>> : v \in Values}

\* The queries the command line accepts: the log group is required, and so
\* is one of start-time, end-time and max-items (main.rs:55-60).
Queries ==
    {q \in [log_group_name : Values, log_stream_name : Optional,
            filter_pattern : Optional, start_time : Optional,
            end_time : Optional, max_items : Optional] :
        q.start_time # <<>> \/ q.end_time # <<>> \/ q.max_items # <<>>}

\* Option::unwrap_or
UnwrapOr(opt, default) == IF opt = <<>> THEN default ELSE opt[1]

\* main.rs:97-104: the bytes fed to the hasher, in order.  SHA-1 is taken to
\* be injective, so two fingerprints are equal exactly when these bytes are.
HashInput(q) ==
    <<"0x02">>
    \o q.log_group_name
    \o UnwrapOr(q.log_stream_name,
                <<"l", "o", "g", "-", "s", "t", "r", "e", "a", "m", "-",
                  "n", "a", "m", "e">>)
    \o UnwrapOr(q.filter_pattern,
                <<"f", "i", "l", "t", "e", "r", "-", "p", "a", "t", "t", "e",
                  "r", "n">>)
    \o UnwrapOr(q.start_time,
                <<"s", "t", "a", "r", "t", "-", "t", "i", "m", "e">>)
    \o UnwrapOr(q.end_time, <<"e", "n", "d", "-", "t", "i", "m", "e">>)
    \o UnwrapOr(q.max_items,
                <<"m", "a", "x", "-", "i", "t", "e", "m", "s">>)

\* The decimal digits of a --max-items value below ten.
Digits(n) == <<(<<"0", "1", "2", "3", "4", "5", "6", "7", "8", "9">>)[n + 1]>>

\* The query all invocations of the cache model carry: one log group, a start
\* time, and the --max-items of the environment.
QueryOf(items) ==
    [log_group_name |-> <<"1">>, log_stream_name |-> <<>>,
     filter_pattern |-> <<>>, start_time |-> << <<"1">> >>,
     end_time |-> <<>>,
     max_items |-> IF items = None THEN <<>> ELSE <<Digits(items)>>]

VARIABLES
    cacheDir,     \* the cache directory exists
    earlier,      \* events in the entry an earlier invocation left, or None
    stream_len,   \* number of events the remote stream holds
    max_items,    \* --max-items of the query (None when not given)
    honours,      \* the remote never returns more events than --limit
    force,        \* -f of each invocation
    show_text,    \* -t of each invocation
    query,        \* the other arguments of each invocation
    hash,         \* main.rs:96-106, <<>> until main has computed it
    dir,          \* [path |-> inode, 0 when the path does not exist]
    data,         \* [inode |-> bytes of the file]
    pc,           \* position of each invocation in main
    file,         \* the open file of an invocation: [ino, pos]
    remaining,    \* main.rs:147
    next_token,   \* main.rs:148
    response,     \* events of the response being processed
    event,        \* index of the event being processed in response
    stdout,       \* bytes written to the output
    stderr,       \* messages written to the error stream
    linebuf,      \* bytes of the line a text-mode cache read is collecting
    status,       \* exit status, None while the process runs
    sent,         \* history: the requests issued, <<limit, token>> each
    pages,        \* history: the responses received, <<events, token>> each
    atStart       \* history: the files at both paths when main started

env == <<cacheDir, earlier, stream_len, max_items, honours>>

args == <<force, show_text, query>>

vars == <<env, args, hash, dir, data, pc, file, remaining, next_token, response,
          event, stdout, stderr, linebuf, status, sent, pages, atStart>>

Paths == {"path", "temporary_path"}

FetchPcs == {"create", "request", "write_bytes", "write_newline", "emit",
             "decrement", "rename"}

Fetching(p) == pc[p] \in FetchPcs

\* path.exists()
Exists(name) == cacheDir /\ dir[name] # 0

\* The file a path names: <<>> when there is none, else <<its bytes>>.
FileAt(name) == IF Exists(name) THEN <<data[dir[name]]>> ELSE <<>>

\* All events an invocation has received, in the order received.
RECURSIVE Concat(_)
Concat(ps) == IF ps = <<>> THEN <<>> ELSE Head(ps)[1] \o Concat(Tail(ps))

Received(p) == Concat(pages[p])

\* The state every invocation starts in.
Fresh ==
    /\ pc = [p \in Procs |-> "main"]
    /\ file = [p \in Procs |-> [ino |-> 0, pos |-> 0]]
    /\ remaining = [p \in Procs |-> Unbounded]
    /\ next_token = [p \in Procs |-> None]
    /\ response = [p \in Procs |-> <<>>]
    /\ event = [p \in Procs |-> 0]
    /\ stdout = [p \in Procs |-> <<>>]
    /\ stderr = [p \in Procs |-> <<>>]
    /\ linebuf = [p \in Procs |-> <<>>]
    /\ status = [p \in Procs |-> None]
    /\ sent = [p \in Procs |-> <<>>]
    /\ pages = [p \in Procs |-> <<>>]
    /\ atStart = [p \in Procs |-> [n \in Paths |-> <<>>]]
    /\ hash = [p \in Procs |-> <<>>]

\* Every environment and every choice of -f and -t, over an empty cache.  The
\* first invocation meets no cache entry, so its -f changes nothing and is
\* left unset; a page never exceeds the limit of 1000 of an unbounded fetch,
\* so there every remote honours the limit.
Init ==
    /\ cacheDir \in BOOLEAN
    /\ earlier = None
    /\ stream_len \in 0..MaxN
    /\ max_items \in {None} \cup (0..MaxItems)
    /\ honours \in (IF max_items = None THEN {TRUE} ELSE BOOLEAN)
    /\ force \in {f \in [Procs -> BOOLEAN] : ~f[1]}
    /\ show_text \in [Procs -> BOOLEAN]
    /\ query = [p \in Procs |-> QueryOf(max_items)]
    /\ dir = [n \in Paths |-> 0]
    /\ data = [i \in Inodes |-> <<>>]
    /\ Fresh

\* A cache that holds the entry an earlier invocation committed when the
\* stream had MaxN events: all of them, or the first max_items.
InitWarm ==
    /\ cacheDir = TRUE
    /\ stream_len \in 0..MaxN
    /\ max_items \in {None} \cup (0..MaxItems)
    /\ earlier = (IF max_items = None THEN MaxN ELSE Min(MaxN, max_items))
    /\ honours = TRUE
    /\ force \in [Procs -> BOOLEAN]
    /\ show_text \in [Procs -> BOOLEAN]
    /\ query = [p \in Procs |-> QueryOf(max_items)]
    /\ dir = [n \in Paths |-> IF n = "path" THEN Earlier ELSE 0]
    /\ data = [i \in Inodes |->
                 IF i = Earlier THEN Encode(Stream(Earlier, earlier)) ELSE <<>>]
    /\ Fresh

\* An empty cache, a remote that honours --limit, structured output.
InitConc ==
    /\ cacheDir = TRUE
    /\ earlier = None
    /\ stream_len \in 1..MaxN
    /\ max_items \in {None, MaxItems}
    /\ honours = TRUE
    /\ force \in {f \in [Procs -> BOOLEAN] : ~f[1]}
    /\ show_text = [p \in Procs |-> FALSE]
    /\ query = [p \in Procs |-> QueryOf(max_items)]
    /\ dir = [n \in Paths |-> 0]
    /\ data = [i \in Inodes |-> <<>>]
    /\ Fresh

\* Two invocations with any two queries; the rest is at rest.
InitFp ==
    /\ query \in [Procs -> Queries]
    /\ cacheDir = TRUE
    /\ earlier = None
    /\ stream_len = 0
    /\ max_items = None
    /\ honours = TRUE
    /\ force = [p \in Procs |-> FALSE]
    /\ show_text = [p \in Procs |-> FALSE]
    /\ dir = [n \in Paths |-> 0]
    /\ data = [i \in Inodes |-> <<>>]
    /\ Fresh

\* What a fetch that did not reach its rename may have left at the partial
\* path: nothing yet, half a record, whole records, whole records and half
\* of the next.
Leftovers ==
    {<<>>,
     ToBytes(Rec(Earlier, 1)),
     Encode(Stream(Earlier, MaxN)),
     Encode(Stream(Earlier, MaxN)) \o ToBytes(Rec(Earlier, MaxN + 1))}

\* No cache entry, and a partial file left by an earlier invocation.
InitLeft ==
    /\ cacheDir = TRUE
    /\ earlier = None
    /\ stream_len \in 0..MaxN
    /\ max_items \in {None} \cup (0..MaxItems)
    /\ honours = TRUE
    /\ force \in {f \in [Procs -> BOOLEAN] : ~f[1]}
    /\ show_text \in [Procs -> BOOLEAN]
    /\ query = [p \in Procs |-> QueryOf(max_items)]
    /\ dir = [n \in Paths |-> IF n = TemporaryPath THEN Earlier ELSE 0]
    /\ \E bytes \in Leftovers :
          data = [i \in Inodes |-> IF i = Earlier THEN bytes ELSE <<>>]
    /\ Fresh

\* An empty cache in an existing directory, a remote that honours --limit,
\* structured output, no -f.
InitLive ==
    /\ cacheDir = TRUE
    /\ earlier = None
    /\ stream_len \in 0..MaxN
    /\ max_items \in {None} \cup (0..MaxItems)
    /\ honours = TRUE
    /\ force = [p \in Procs |-> FALSE]
    /\ show_text = [p \in Procs |-> FALSE]
    /\ query = [p \in Procs |-> QueryOf(max_items)]
    /\ dir = [n \in Paths |-> 0]
    /\ data = [i \in Inodes |-> <<>>]
    /\ Fresh

(* ------------------------------------------------------------ the steps *)
\* A failed unwrap() at a source line: the process prints the panic message
\* and exits with status 101.
Panic(p, line) ==
    /\ pc' = [pc EXCEPT ![p] = "panic"]
    /\ status' = [status EXCEPT ![p] = PanicCode]
    /\ stderr' = [stderr EXCEPT ![p] = Append(@, PanicMessage(line))]

\* return from main: the process exits with status 0.
Return(p, how) ==
    /\ pc' = [pc EXCEPT ![p] = how]
    /\ status' = [status EXCEPT ![p] = 0]

\* CacheHit without the test of -f.
CacheHitIgnoresForce(p) == Exists("path")

\* main.rs:114: the test that sends main to the cached file
CacheHit(p) == ~force[p] /\ Exists("path")

\* main.rs:87-114: the arguments are read and the cache is checked.  With
\* exclusive set, a fetch starts only while no other invocation is fetching.
CheckCache(p, exclusive) ==
    /\ pc[p] = "main"
    /\ \A q \in Procs : q < p => pc[q] # "main"
    /\ IF CacheHit(p)
       THEN pc' = [pc EXCEPT ![p] = "open"]
       ELSE /\ exclusive => \A q \in Procs \ {p} : ~Fetching(q)
            /\ pc' = [pc EXCEPT ![p] = "create"]
    /\ hash' = [hash EXCEPT ![p] = HashInput(query[p])]
    /\ atStart' = [atStart EXCEPT ![p] = [n \in Paths |-> FileAt(n)]]
    /\ UNCHANGED <<env, args, dir, data, file, remaining, next_token, response,
                   event, stdout, stderr, linebuf, status, sent, pages>>

\* main.rs:115: File::open(path).unwrap()
OpenCache(p) ==
    /\ pc[p] = "open"
    /\ IF Exists("path")
       THEN /\ file' = [file EXCEPT ![p] = [ino |-> dir["path"], pos |-> 0]]
            /\ pc' = [pc EXCEPT ![p] = "read"]
            /\ UNCHANGED <<status, stderr>>
       ELSE /\ Panic(p, 115)
            /\ UNCHANGED file
    /\ UNCHANGED <<env, args, hash, dir, data, remaining, next_token, response,
                   event, stdout, linebuf, sent, pages, atStart>>

\* main.rs:116-126: one read of the cached file from the current offset up to
\* its end; a read of zero bytes is the end of the file.
ReadCache(p) ==
    /\ pc[p] = "read"
    /\ LET chunk == Chunk(data[file[p].ino], file[p].pos)
           seen == linebuf[p] \o chunk
           printed == IF chunk = <<>> THEN PrintLines(Lines(seen))
                      ELSE PrintLines(Terminated(seen))
       IN /\ file' = [file EXCEPT ![p].pos = @ + Len(chunk)]
          /\ IF show_text[p]
             THEN /\ stdout' = [stdout EXCEPT ![p] = @ \o printed.out]
                  /\ linebuf' = [linebuf EXCEPT ![p] = Unterminated(seen, <<>>)]
                  /\ IF ~printed.ok THEN Panic(p, 120)
                     ELSE IF chunk = <<>>
                     THEN Return(p, "hit") /\ UNCHANGED stderr
                     ELSE UNCHANGED <<pc, status, stderr>>
             ELSE /\ stdout' = [stdout EXCEPT ![p] = @ \o chunk]
                  /\ UNCHANGED <<linebuf, stderr>>
                  /\ IF chunk = <<>> THEN Return(p, "hit")
                     ELSE UNCHANGED <<pc, status>>
    /\ UNCHANGED <<env, args, hash, dir, data, remaining, next_token, response,
                   event, sent, pages, atStart>>

\* Created without the truncation: the file keeps the bytes it had.
CreatedKeepsBytes(content) == content

\* The bytes of a file after File::create has opened it: none.
Created(content) == <<>>

\* main.rs:143-150: File::create(temporary_path).unwrap(), which truncates
\* the file the name already has, then the first test of the loop condition.
CreatePartial(p) ==
    /\ pc[p] = "create"
    /\ IF ~cacheDir
       THEN /\ Panic(p, 144)
            /\ UNCHANGED <<dir, data, file, remaining, next_token>>
       ELSE /\ LET old == dir[TemporaryPath]
                   ino == IF old = 0 THEN p ELSE old
               IN /\ dir' = [dir EXCEPT ![TemporaryPath] = ino]
                  /\ data' = [data EXCEPT ![ino] = Created(@)]
                  /\ file' = [file EXCEPT ![p] = [ino |-> ino, pos |-> 0]]
            /\ remaining' = [remaining EXCEPT ![p] = ParseItems(max_items)]
            /\ next_token' = [next_token EXCEPT ![p] = None]
            /\ pc' = [pc EXCEPT ![p] =
                        IF LoopCond(ParseItems(max_items)) THEN "request"
                        ELSE "rename"]
            /\ UNCHANGED <<status, stderr>>
    /\ UNCHANGED <<env, args, hash, response, event, stdout, linebuf, sent, pages,
                   atStart>>

(* ------------------------------------------------------------ the remote *)
\* Offset in the stream a continuation token stands for.
Offset(token) == IF token = None THEN 0 ELSE token

\* Numbers of events the remote may answer with, for a request at offset pos.
PageSizes(lim, pos) ==
    0..Min(Min(MaxPage, stream_len - pos), IF honours THEN lim ELSE MaxPage)

\* nextToken of a response that ends at offset pos: present while the stream
\* has more events, present or absent at its end.
NextTokens(pos) == IF pos < stream_len THEN {pos} ELSE {None, pos}

\* RequestFails falling through to the rename of main.rs:198.
RequestFailsAndRenames(p) ==
    /\ stderr' = [stderr EXCEPT ![p] = Append(@, AwsStderr(p, Len(sent[p]) + 1))]
    /\ Return(p, "aborted")
    /\ dir' = [dir EXCEPT !["path"] = dir[TemporaryPath], ![TemporaryPath] = 0]
    /\ UNCHANGED <<next_token, response, event, pages>>

\* main.rs:167-170: the aws call exits with a failure status.
RequestFails(p) ==
    /\ stderr' = [stderr EXCEPT ![p] = Append(@, AwsStderr(p, Len(sent[p]) + 1))]
    /\ Return(p, "aborted")
    /\ UNCHANGED <<dir, next_token, response, event, pages>>

\* main.rs:164: aws cannot be run and the unwrap panics.  (Output that is not
\* a LogEvents panics the same way at main.rs:172.)
RequestPanics(p) ==
    /\ Panic(p, 164)
    /\ UNCHANGED <<dir, next_token, response, event, pages>>

\* RequestSucceeds with the output written before the file: the first event
\* of a page goes to the output first.
RequestSucceedsEmitsFirst(p) ==
    \E k \in PageSizes(Limit(remaining[p]), Offset(next_token[p])) :
    \E token \in NextTokens(Offset(next_token[p]) + k) :
        LET events == [i \in 1..k |-> Rec(p, Offset(next_token[p]) + i)]
        IN /\ response' = [response EXCEPT ![p] = events]
           /\ pages' = [pages EXCEPT ![p] = Append(@, <<events, token>>)]
           /\ next_token' = [next_token EXCEPT ![p] = token]
           /\ event' = [event EXCEPT ![p] = 1]
           /\ pc' = [pc EXCEPT ![p] = IF k = 0 THEN "decrement" ELSE "emit"]
           /\ UNCHANGED <<dir, status, stderr>>

\* main.rs:172-175: a response arrives and its first event is taken up.
RequestSucceeds(p) ==
    \E k \in PageSizes(Limit(remaining[p]), Offset(next_token[p])) :
    \E token \in NextTokens(Offset(next_token[p]) + k) :
        LET events == [i \in 1..k |-> Rec(p, Offset(next_token[p]) + i)]
        IN /\ response' = [response EXCEPT ![p] = events]
           /\ pages' = [pages EXCEPT ![p] = Append(@, <<events, token>>)]
           /\ next_token' = [next_token EXCEPT ![p] = token]
           /\ event' = [event EXCEPT ![p] = 1]
           /\ pc' = [pc EXCEPT ![p] =
                       IF k = 0 THEN "decrement" ELSE "write_bytes"]
           /\ UNCHANGED <<dir, status, stderr>>

\* main.rs:151-173: one aws call and the handling of its result.
Request(p) ==
    /\ pc[p] = "request"
    /\ Len(sent[p]) < MaxReq
    /\ sent' = [sent EXCEPT ![p] =
                  Append(@, <<Limit(remaining[p]), next_token[p]>>)]
    /\ \/ RequestFails(p)
       \/ RequestPanics(p)
       \/ RequestSucceeds(p)
    /\ UNCHANGED <<env, args, hash, data, file, remaining, stdout, linebuf,
                   atStart>>

\* RequestSucceeds for a request past the recorded history.
RequestSucceedsUnrecorded(p) ==
    \E k \in PageSizes(Limit(remaining[p]), Offset(next_token[p])) :
    \E token \in NextTokens(Offset(next_token[p]) + k) :
        LET events == [i \in 1..k |-> Rec(p, Offset(next_token[p]) + i)]
        IN /\ response' = [response EXCEPT ![p] = events]
           /\ next_token' = [next_token EXCEPT ![p] = token]
           /\ event' = [event EXCEPT ![p] = 1]
           /\ pc' = [pc EXCEPT ![p] =
                       IF k = 0 THEN "decrement" ELSE "write_bytes"]
           /\ UNCHANGED <<dir, status, stderr, pages>>

\* main.rs:151-173 once the history holds MaxReq requests: the loop has no
\* bound on the number of aws calls, only the history variables have.
RequestBeyond(p) ==
    /\ pc[p] = "request"
    /\ Len(sent[p]) = MaxReq
    /\ \/ RequestFails(p)
       \/ RequestPanics(p)
       \/ RequestSucceedsUnrecorded(p)
    /\ UNCHANGED <<env, args, hash, data, file, remaining, stdout, linebuf,
                   atStart, sent>>

\* FileWrite that always writes at the start of the file.
FileWriteAtStart(p, b) ==
    /\ data' = [data EXCEPT ![file[p].ino] = WriteAt(@, 0, b)]
    /\ file' = [file EXCEPT ![p].pos = @ + Len(b)]

\* file.write(b) at the offset of the open file.
FileWrite(p, b) ==
    /\ data' = [data EXCEPT ![file[p].ino] = WriteAt(@, file[p].pos, b)]
    /\ file' = [file EXCEPT ![p].pos = @ + Len(b)]

\* main.rs:176-178
WriteBytes(p) ==
    /\ pc[p] = "write_bytes"
    /\ FileWrite(p, ToBytes(response[p][event[p]]))
    /\ pc' = [pc EXCEPT ![p] = "write_newline"]
    /\ UNCHANGED <<env, args, hash, dir, remaining, next_token, response, event,
                   stdout, stderr, linebuf, status, sent, pages, atStart>>

\* main.rs:179
WriteNewline(p) ==
    /\ pc[p] = "write_newline"
    /\ FileWrite(p, <<NEWLINE>>)
    /\ pc' = [pc EXCEPT ![p] = "emit"]
    /\ UNCHANGED <<env, args, hash, dir, remaining, next_token, response, event,
                   stdout, stderr, linebuf, status, sent, pages, atStart>>

\* main.rs:180-186: the event goes to the output; then the next event.
Emit(p) ==
    /\ pc[p] = "emit"
    /\ stdout' = [stdout EXCEPT ![p] =
                    @ \o EmitLine(show_text[p], response[p][event[p]])]
    /\ event' = [event EXCEPT ![p] = @ + 1]
    /\ pc' = [pc EXCEPT ![p] =
                IF event[p] = Len(response[p]) THEN "decrement"
                ELSE "write_bytes"]
    /\ UNCHANGED <<env, args, hash, dir, data, file, remaining, next_token, response,
                   stderr, linebuf, status, sent, pages, atStart>>

\* main.rs:188-196 and the loop condition of main.rs:150.  A subtraction
\* that overflows panics in a build with overflow checks and wraps in one
\* without.
Decrement(p) ==
    /\ pc[p] = "decrement"
    /\ LET len == Len(response[p])
       IN IF remaining[p] = Unbounded
          THEN /\ pc' = [pc EXCEPT ![p] = AfterPage(next_token[p], Unbounded)]
               /\ UNCHANGED <<remaining, status, stderr>>
          ELSE \/ /\ Overflows(remaining[p], len)
                  /\ Panic(p, 189)
                  /\ UNCHANGED remaining
               \/ /\ remaining' = [remaining EXCEPT ![p] = Subtract(@, len)]
                  /\ pc' = [pc EXCEPT ![p] =
                              AfterPage(next_token[p],
                                        Subtract(remaining[p], len))]
                  /\ UNCHANGED <<status, stderr>>
    /\ UNCHANGED <<env, args, hash, dir, data, file, next_token, response, event,
                   stdout, linebuf, sent, pages, atStart>>

\* Rename as a copy: the partial path keeps its file.
RenameCopies(p) ==
    /\ pc[p] = "rename"
    /\ IF Exists(TemporaryPath)
       THEN /\ dir' = [dir EXCEPT !["path"] = dir[TemporaryPath]]
            /\ Return(p, "committed")
            /\ UNCHANGED stderr
       ELSE /\ Panic(p, 198)
            /\ UNCHANGED dir
    /\ UNCHANGED <<env, args, hash, data, file, remaining, next_token, response,
                   event, stdout, linebuf, sent, pages, atStart>>

\* main.rs:198: fs::rename(temporary_path, path).unwrap()
Rename(p) ==
    /\ pc[p] = "rename"
    /\ IF Exists(TemporaryPath)
       THEN /\ dir' = [dir EXCEPT !["path"] = dir[TemporaryPath],
                                  ![TemporaryPath] = 0]
            /\ Return(p, "committed")
            /\ UNCHANGED stderr
       ELSE /\ Panic(p, 198)
            /\ UNCHANGED dir
    /\ UNCHANGED <<env, args, hash, data, file, remaining, next_token, response,
                   event, stdout, linebuf, sent, pages, atStart>>

\* main.rs:96-106 alone: the fingerprint of the query of invocation p.
Fingerprint(p) ==
    /\ hash[p] = <<>>
    /\ hash' = [hash EXCEPT ![p] = HashInput(query[p])]
    /\ UNCHANGED <<env, args, dir, data, pc, file, remaining, next_token,
                   response, event, stdout, stderr, linebuf, status, sent,
                   pages, atStart>>

(* ------------------------------------------------------- specifications *)
Step(p) ==
    \/ OpenCache(p)
    \/ ReadCache(p)
    \/ CreatePartial(p)
    \/ Request(p)
    \/ WriteBytes(p)
    \/ WriteNewline(p)
    \/ Emit(p)
    \/ Decrement(p)
    \/ Rename(p)

\* At most one fetch runs at a time; cache reads run beside it.
Next == \E p \in Procs : CheckCache(p, TRUE) \/ Step(p)

Spec == Init /\ [][Next]_vars

\* The same over a cache that already holds an entry.
SpecWarm == InitWarm /\ [][Next]_vars

\* Any number of fetches run at a time.
NextConc == \E p \in Procs : CheckCache(p, FALSE) \/ Step(p)

SpecConc == InitConc /\ [][NextConc]_vars

\* The same over a cache that holds a leftover partial file only.
SpecLeft == InitLeft /\ [][Next]_vars

\* All steps of one invocation, with no bound on its requests.
Proc(p) == CheckCache(p, TRUE) \/ Step(p) \/ RequestBeyond(p)

NextLive == \E p \in Procs : Proc(p)

\* A process that can take a step takes one: main runs until it returns or
\* panics, and every call it makes (aws, read, write, rename) returns.
SpecLive == InitLive /\ [][NextLive]_vars /\ \A p \in Procs : WF_vars(Proc(p))

\* Fingerprints of two queries.
NextFp == \E p \in Procs : Fingerprint(p)

SpecFp == InitFp /\ [][NextFp]_vars

(* --------------------------------------------------------------- claims *)
Range(seq) == {seq[i] : i \in 1..Len(seq)}

\* The event a line of output or of a cache file stands for (0 for a line
\* that is not one event).
EventOfLine(line) ==
    IF Len(line) # 1 THEN 0
    ELSE IF line[1] >= 100 THEN line[1] - 100 ELSE line[1]

\* The events in a sequence of bytes, line by line.
Events(bytes) == [i \in 1..Len(Lines(bytes)) |-> EventOfLine(Lines(bytes)[i])]

\* The events invocation p has put on its output.
Emitted(p) == Events(stdout[p])

\* No invocation started after p has replaced the cache entry.
NotReplacedAfter(p) == \A q \in Procs : q > p => pc[q] # "committed"

\* The fetch of invocation p ended in a failed remote request.
RequestFailed(p) ==
    \/ pc[p] = "aborted"
    \/ pc[p] = "panic" /\ stderr[p][Len(stderr[p])] = PanicMessage(164)

\* C1: when a remote request of a fetch fails, the invocation ends without
\* renaming: the final cache path holds what it held when the invocation
\* started (nothing, if it held nothing), and a later invocation without -f
\* that finds no cache entry fetches from the first page, its first request
\* carrying no continuation token.
C1_FailedFetchLeavesNoEntry ==
    \A p \in Procs : RequestFailed(p) =>
        /\ NotReplacedAfter(p) => FileAt("path") = atStart[p]["path"]
        /\ \A q \in Procs :
             (q > p /\ ~force[q] /\ pc[q] # "main" /\ atStart[q]["path"] = <<>>)
             => /\ pc[q] \notin {"open", "read", "hit"}
                /\ sent[q] # <<>> => sent[q][1][2] = None
                /\ Received(q) = Stream(q, Len(Received(q)))
                /\ pc[q] = "committed" => FileAt("path") = <<Encode(Received(q))>>

C1_Witness ==
    /\ pc[1] = "aborted" /\ Len(sent[1]) = 2 /\ Len(Received(1)) >= 1
    /\ pc[2] = "committed" /\ ~force[2] /\ Len(Received(2)) >= 2

\* C2: a fetch bounded by max_items = m over a stream of at least m events,
\* served by a remote that honours the page size, ends with remaining = 0 and
\* commits an entry that holds exactly the first m events of the stream, in
\* stream order.
C2_BoundedFetchCommitsFirstM ==
    \A p \in Procs :
      (pc[p] = "committed" /\ max_items # None /\ stream_len >= max_items
       /\ honours)
      => /\ remaining[p] = U32(0)
         /\ Received(p) = Stream(p, max_items)
         /\ data[file[p].ino] = Encode(Stream(p, max_items))
         /\ NotReplacedAfter(p) =>
                FileAt("path") = <<Encode(Stream(p, max_items))>>

C2_Witness ==
    \E p \in Procs :
        /\ pc[p] = "committed" /\ honours
        /\ max_items = 1 /\ stream_len = 2
        /\ Len(pages[p]) = 2 /\ next_token[p] # None
        /\ FileAt("path") = <<Encode(Stream(p, 1))>>

\* C3: with a cache entry present and -f unset, the invocation issues no
\* request, creates no partial file, leaves the entry as it is and writes to
\* the output exactly the events stored in the entry, in stored order.
C3_CacheHitReadsEntry ==
    \A p \in Procs : pc[p] \in {"open", "read", "hit"} =>
        /\ ~force[p] /\ atStart[p]["path"] # <<>>
        /\ sent[p] = <<>> /\ pages[p] = <<>>
        /\ (\A q \in Procs : q > p => pc[q] \in {"main", "open", "read", "hit"})
           => /\ FileAt("path") = atStart[p]["path"]
              /\ FileAt(TemporaryPath) = atStart[p][TemporaryPath]
        /\ pc[p] = "hit" =>
              /\ status[p] = 0 /\ stderr[p] = <<>>
              /\ ~show_text[p] => stdout[p] = atStart[p]["path"][1]
              /\ Emitted(p) = Events(atStart[p]["path"][1])

C3_Witness ==
    /\ pc[2] = "hit" /\ show_text[2]
    /\ Emitted(2) = Stream(1, 2)

\* C4: a fetch without max_items requests pages until the first response
\* without a continuation token and then commits an entry that holds the
\* events of all pages received, in page order and in order within a page.
C4_UnboundedFetchCommitsAllPages ==
    \A p \in Procs : max_items = None =>
        /\ \A i \in 1..(Len(pages[p]) - 1) : pages[p][i][2] # None
        /\ pc[p] = "rename" => pages[p][Len(pages[p])][2] = None
        /\ pc[p] = "committed" =>
              /\ pages[p] # <<>> /\ pages[p][Len(pages[p])][2] = None
              /\ data[file[p].ino] = Encode(Received(p))
              /\ NotReplacedAfter(p) => FileAt("path") = <<Encode(Received(p))>>

C4_Witness ==
    \E p \in Procs :
        /\ pc[p] = "committed" /\ max_items = None
        /\ Len(pages[p]) = 3 /\ Len(Received(p)) = 2
        /\ pages[p][1][1] # <<>> /\ pages[p][3][1] # <<>>
        /\ FileAt("path") = <<Encode(Stream(p, 2))>>

\* C5: a fetch whose first response has no events and no continuation token
\* commits an empty entry (zero bytes), and a later invocation without -f is
\* a cache hit that writes nothing to the output and ends without error, in
\* text mode and in structured mode.
C5_EmptyStreamCommitsEmptyEntry ==
    \A p \in Procs :
      (pc[p] = "committed" /\ pages[p] = << <<<<>>, None>> >>) =>
        /\ data[file[p].ino] = <<>>
        /\ NotReplacedAfter(p) => FileAt("path") = << <<>> >>
        /\ \A q \in Procs : (q > p /\ ~force[q] /\ pc[q] # "main") =>
              /\ pc[q] \in {"open", "read", "hit"}
              /\ stdout[q] = <<>> /\ stderr[q] = <<>>
              /\ pc[q] = "hit" => status[q] = 0

C5_Witness ==
    /\ pc[1] = "committed" /\ pages[1] = << <<<<>>, None>> >>
    /\ pc[2] = "hit" /\ show_text[2] /\ status[2] = 0

\* C6: the events a committed fetch appended to its file are, in the same
\* order, the events a following cache hit on that file writes to the output
\* and the events the fetch itself wrote to the output.
C6_RoundTrip ==
    \A p, q \in Procs :
      (pc[p] = "committed" /\ pc[q] = "hit" /\ file[q].ino = file[p].ino) =>
        /\ Events(data[file[p].ino]) = Received(p)
        /\ Emitted(q) = Received(p)
        /\ Emitted(p) = Received(p)

C6_Witness ==
    /\ pc[1] = "committed" /\ pc[2] = "hit" /\ file[2].ino = file[1].ino
    /\ Len(Received(1)) = 2 /\ show_text[1] /\ ~show_text[2]

\* The byte sequences of the fetches that have finished with a commit, the
\* earlier invocation's among them.
Complete ==
    {Encode(Received(p)) : p \in {q \in Procs : pc[q] = "committed"}}
    \cup (IF earlier = None THEN {} ELSE {Encode(Stream(Earlier, earlier))})

\* C7: with at most one fetch running at a time, the file at the final cache
\* path is in every state absent or the complete output of one finished
\* fetch, and so is every file a cache read has open and everything a cache
\* read has written to the output when it ends.
C7_NoHalfWrittenEntry ==
    /\ Exists("path") => data[dir["path"]] \in Complete
    /\ \A q \in Procs :
         /\ pc[q] \in {"read", "hit"} => data[file[q].ino] \in Complete
         /\ pc[q] = "hit" => Encode(Emitted(q)) \in Complete

C7_Witness ==
    \E p, q \in Procs :
        /\ pc[q] = "read" /\ file[q].pos = 0 /\ earlier >= 2
        /\ pc[p] = "write_newline" /\ Len(data[file[p].ino]) = 3
        /\ force[p] /\ dir["path"] = Earlier

\* C8: two invocations that fetch the same fingerprint at the same time do
\* not corrupt each other's partial file: no rename fails, and after a commit
\* the final cache path holds the complete output of a committed fetch.
C8_ConcurrentFetchesCommit ==
    /\ \A p \in Procs : PanicMessage(198) \notin Range(stderr[p])
    /\ (\E p \in Procs : pc[p] = "committed") =>
          /\ Exists("path")
          /\ data[dir["path"]] \in
                {Encode(Received(p)) : p \in {q \in Procs : pc[q] = "committed"}}

\* C9: a failed remote call puts its error detail on the error stream and
\* the process exits with a non-zero status; a successful invocation exits
\* with status 0.
C9_ExitStatus ==
    \A p \in Procs :
        /\ pc[p] = "aborted" =>
              /\ AwsStderr(p, Len(sent[p])) \in Range(stderr[p])
              /\ status[p] \notin {None, 0}
        /\ pc[p] \in {"hit", "committed"} => status[p] = 0

\* C10: two queries that differ in a field (in its value, or in its being
\* given or not) have different fingerprints, that is, different bytes are
\* fed to the hash.
C10_FingerprintsDiffer ==
    \A p, q \in Procs :
        (hash[p] # <<>> /\ hash[q] # <<>> /\ query[p] # query[q])
        => hash[p] # hash[q]

\* No invocation started after p has begun a fetch.
NoFetchAfter(p) ==
    \A q \in Procs : q > p => pc[q] \in {"main", "open", "read", "hit"}

\* C11: an invocation that starts with a leftover partial file and no cache
\* entry does not read the cache; once it has created its file, the file
\* holds the events it has received and nothing of the leftover, at every
\* request and at the rename; and the entry it commits is the events it
\* received.
C11_LeftoverPartialIsOverwritten ==
    \A p \in Procs :
      (pc[p] # "main" /\ atStart[p]["path"] = <<>>
       /\ atStart[p][TemporaryPath] # <<>>) =>
        /\ pc[p] \notin {"open", "read", "hit"}
        /\ (pc[p] \in {"request", "decrement", "rename"} /\ NoFetchAfter(p))
           => data[file[p].ino] = Encode(Received(p))
        /\ (pc[p] = "write_bytes" /\ event[p] = 1 /\ Len(pages[p]) = 1)
           => data[file[p].ino] = <<>>
        /\ (pc[p] = "committed" /\ NotReplacedAfter(p))
           => FileAt("path") = <<Encode(Received(p))>>

C11_Witness ==
    /\ pc[1] = "committed" /\ Len(Received(1)) = 1
    /\ Len(atStart[1][TemporaryPath][1]) > 2
    /\ FileAt("path") = <<Encode(Stream(1, 1))>>

IsPrefix(s, t) == Len(s) <= Len(t) /\ s = SubSeq(t, 1, Len(s))

\* The events in the file a fetch is writing (the last may lack its newline).
Written(p) == Events(data[file[p].ino])

\* C12: while a fetch runs, the events on the output are a prefix of the
\* events in the partial file and at most one event behind it, the events in
\* the partial file are a prefix of the remote stream, and at every request
\* all events of the pages received so far are in the file and on the
\* output.
C12_AppendBeforeEmit ==
    \A p \in Procs : (Fetching(p) /\ pc[p] # "create") =>
        /\ IsPrefix(Emitted(p), Written(p))
        /\ Len(Written(p)) <= Len(Emitted(p)) + 1
        /\ IsPrefix(Written(p), Stream(p, stream_len))
        /\ pc[p] = "emit" => Len(Written(p)) = Len(Emitted(p)) + 1
        /\ pc[p] \in {"request", "decrement", "rename"} =>
              /\ Len(sent[p]) = Len(pages[p])
              /\ data[file[p].ino] = Encode(Received(p))
              /\ Emitted(p) = Received(p)

C12_Witness ==
    \E p \in Procs :
        /\ pc[p] = "emit" /\ Len(pages[p]) = 2
        /\ Len(Written(p)) = 2 /\ Len(Emitted(p)) = 1

\* The number of events invocation p had received when it issued its i-th
\* request.
ReceivedBefore(p, i) == Len(Concat(SubSeq(pages[p], 1, i - 1)))

\* C13: every request carries the limit min(remaining, 1000) when max_items
\* is given, remaining being max_items less the number of events received so
\* far, and the limit 1000 when it is not; every limit is between 1 and 1000.
C13_RequestLimit ==
    \A p \in Procs : \A i \in 1..Len(sent[p]) :
        /\ sent[p][i][1] \in 1..PageLimit
        /\ sent[p][i][1] =
              (IF max_items = None THEN PageLimit
               ELSE Min(max_items - ReceivedBefore(p, i), PageLimit))

\* The page invocation p received last.
LastPage(p) == pages[p][Len(pages[p])]

\* C14: the first request of a fetch carries no token and every later one
\* the token of the response before it; a fetch goes to its rename only
\* after a response without a token or with remaining at zero, so a page with
\* a token, however few events it holds, is followed by another request
\* while remaining is unbounded or above zero.
C14_ShortPageContinues ==
    \A p \in Procs :
        /\ \A i \in 1..Len(sent[p]) :
              sent[p][i][2] = (IF i = 1 THEN None ELSE pages[p][i - 1][2])
        /\ \A i \in 1..(Len(sent[p]) - 1) : pages[p][i][2] # None
        /\ (pc[p] \in {"rename", "committed"} /\ pages[p] # <<>>) =>
              LastPage(p)[2] = None \/ remaining[p] = U32(0)
        /\ (pc[p] = "request" /\ pages[p] # <<>>) =>
              LastPage(p)[2] # None /\ LoopCond(remaining[p])

C14_Witness ==
    \E p \in Procs :
        /\ Len(sent[p]) = 3 /\ max_items = MaxItems
        /\ pages[p][1] = <<<<>>, 0>>
        /\ Len(pages[p][2][1]) = 1 /\ pages[p][2][2] = 1
        /\ sent[p][3] = <<MaxItems - 1, 1>>

\* C15: an invocation with -f never reads the cache and fetches although a
\* cache entry exists; the file of the existing entry is never written, the
\* final path holds the entry unchanged while the fetch runs and after it
\* failed, and holds the new result after the rename of a fetch that
\* succeeded.
C15_ForceReplacesOnlyAtRename ==
    /\ earlier # None => data[Earlier] = Encode(Stream(Earlier, earlier))
    /\ \A q \in Procs :
          pc[q] = "committed" => data[file[q].ino] = Encode(Received(q))
    /\ \A p \in Procs : (force[p] /\ pc[p] # "main") =>
          /\ pc[p] \notin {"open", "read", "hit"}
          /\ (atStart[p]["path"] # <<>> /\ NotReplacedAfter(p)) =>
                IF pc[p] = "committed"
                THEN FileAt("path") = <<Encode(Received(p))>>
                ELSE FileAt("path") = atStart[p]["path"]

C15_Witness ==
    /\ force[1] /\ pc[1] = "aborted" /\ Len(Received(1)) >= 1
    /\ force[2] /\ pc[2] = "committed" /\ Len(Received(2)) = 1
    /\ earlier = 2
    /\ atStart[2]["path"] = <<Encode(Stream(Earlier, earlier))>>
    /\ FileAt("path") = <<Encode(Stream(2, 1))>>

\* Invocation p created a partial file and ended without renaming it.
EndedWithoutCommit(p) ==
    \/ pc[p] = "aborted"
    \/ pc[p] = "panic" /\ PanicMessage(144) \notin Range(stderr[p])
                       /\ PanicMessage(115) \notin Range(stderr[p])
                       /\ PanicMessage(120) \notin Range(stderr[p])

\* C16 as claimed: in every state in which no invocation is fetching, no
\* partial file exists.
C16_PartialOnlyDuringFetch ==
    (\A p \in Procs : ~Fetching(p)) => ~Exists(TemporaryPath)

\* C16 as amended: in every state in which no invocation is fetching, a
\* partial file exists only if the fetch that ran last ended without its
\* rename (on a failed request or a panic); after a fetch that committed
\* there is none.
C16_PartialOnlyDuringOrAfterFailedFetch ==
    (\A p \in Procs : ~Fetching(p)) =>
        /\ Exists(TemporaryPath) =>
              \E p \in Procs : EndedWithoutCommit(p) /\ NoFetchAfter(p)
        /\ \A p \in Procs :
              (pc[p] = "committed" /\ NoFetchAfter(p)) => ~Exists(TemporaryPath)
        /\ \A p \in Procs :
              (EndedWithoutCommit(p) /\ NoFetchAfter(p)) =>
                  /\ Exists(TemporaryPath)
                  /\ IsPrefix(data[dir[TemporaryPath]], Encode(Received(p)))

C16_Witness ==
    /\ pc[1] = "committed" /\ pc[2] = "aborted" /\ force[2]
    /\ Exists(TemporaryPath) /\ Len(data[dir[TemporaryPath]]) >= 2

\* C17: an invocation that misses the cache while the cache directory does
\* not exist creates the directory before it opens the partial file, and
\* then fetches and commits as usual: it does not end in the panic of
\* File::create, and past File::create the directory exists.
C17_DirectoryCreated ==
    \A p \in Procs :
        /\ PanicMessage(144) \notin Range(stderr[p])
        /\ pc[p] \in (FetchPcs \ {"create"}) \cup {"committed", "aborted"}
           => cacheDir

\* C18: in a fetch bounded by max_items, after every page remaining is
\* max_items less the number of events received so far and lies between 0
\* and max_items; the subtraction never overflows, and no more than max_items
\* events are written to the file or to the output.
C18_RemainingNeverUnderflows ==
    \A p \in Procs : (max_items # None /\ sent[p] # <<>>) =>
        /\ PanicMessage(189) \notin Range(stderr[p])
        /\ Len(Written(p)) <= max_items
        /\ Len(Emitted(p)) <= max_items
        /\ pc[p] \in {"request", "rename", "committed"} =>
              remaining[p] = U32(max_items - Len(Received(p)))

\* C19: with max_items = 0 an invocation that misses the cache issues no
\* request and writes nothing to the output; once its file is created it
\* goes straight to the rename and commits an empty entry, and every later
\* invocation without -f is a cache hit that writes nothing.
C19_ZeroItemsCommitsEmptyEntry ==
    \A p \in Procs :
      (max_items = 0 /\ pc[p] \notin {"main", "open", "read", "hit"}) =>
        /\ sent[p] = <<>> /\ stdout[p] = <<>>
        /\ cacheDir => pc[p] \in {"create", "rename", "committed"}
        /\ pc[p] = "committed" =>
              /\ status[p] = 0
              /\ FileAt("path") = << <<>> >>
              /\ \A q \in Procs : (q > p /\ ~force[q] /\ pc[q] # "main") =>
                    /\ pc[q] \in {"open", "read", "hit"}
                    /\ sent[q] = <<>> /\ stdout[q] = <<>>
                    /\ pc[q] = "hit" => status[q] = 0

C19_Witness ==
    /\ max_items = 0 /\ stream_len = MaxN
    /\ pc[1] = "committed" /\ sent[1] = <<>>
    /\ pc[2] = "hit" /\ ~force[2] /\ show_text[2] /\ stdout[2] = <<>>

\* Invocation p has ended.
Ended(p) == pc[p] \in {"hit", "committed", "aborted", "panic"}

\* An aws call of invocation p in which the remote ends the stream: the call
\* fails, or its response carries no continuation token.
RemoteEnds(p) ==
    /\ Request(p) \/ RequestBeyond(p)
    /\ pc'[p] \in {"aborted", "panic"} \/ next_token'[p] = None

\* The step that ends the handling of a page of invocation p.
PageDone(p) == pc[p] = "decrement" /\ pc'[p] # "decrement"

\* A page without a token ends the loop; an empty page with a token leaves
\* the loop where it was before the request, with remaining as it was.
LoopStep(p) ==
    PageDone(p) =>
        /\ next_token[p] = None => pc'[p] \in {"rename", "panic"}
        /\ (next_token[p] # None /\ response[p] = <<>>) =>
              /\ pc'[p] = "request"
              /\ remaining'[p] = remaining[p]
              /\ next_token'[p] = next_token[p]

\* C20: if the remote ends the stream of every invocation that keeps calling
\* it (a call fails, or a response carries no token), every invocation ends,
\* in a commit, an abort or a panic; the loop itself leaves only on such a
\* response or on remaining = 0, and after an empty page with a token it
\* issues the next request in the state it was in before, however many
\* requests it has issued, with max_items given or not.
C20_EndsWhenRemoteEnds ==
    /\ (\A p \in Procs : SF_vars(RemoteEnds(p)))
          => (\A p \in Procs : <>Ended(p))
    /\ [][\A p \in Procs : LoopStep(p)]_vars

C20_Witness ==
    \E p \in Procs :
        /\ max_items = MaxItems /\ pc[p] = "committed"
        /\ Len(sent[p]) = MaxReq
        /\ \A i \in 1..(MaxReq - 1) : pages[p][i] = <<<<>>, 0>>
        /\ Len(Received(p)) >= 1

\* The conclusion without the condition on the remote.  It does not hold: a
\* remote that answers every request with an empty page and a token keeps
\* the loop requesting for ever, with max_items given or not.
EveryInvocationEnds == \A p \in Procs : <>Ended(p)

====
